---- MODULE Spec2Model ----
(***************************************************************************)
(* Segmentation and geometric feature extraction of the tabletop object   *)
(* detector: ObjectSegmenter (src/src/segmentation.py) and                 *)
(* FeatureExtractor (src/src/features.py).                                 *)
(*                                                                         *)
(* The binary mask is a set of well separated, filled, axis-aligned        *)
(* rectangular blobs.  On that domain the OpenCV primitives the code calls *)
(* (connectedComponentsWithStats, findContours, contourArea, moments,      *)
(* boundingRect, arcLength) have exact closed forms, which the operators   *)
(* below compute.  Real-valued quantities are kept exact: centroids as     *)
(* doubled integers, ratios as reduced fractions, configured ratios in     *)
(* tenths.  Within the bounds every float comparison of the code agrees    *)
(* with the exact comparison made here.                                    *)
(***************************************************************************)
EXTENDS Integers, Sequences, FiniteSets, TLC

\* ------------------------------------------------------------------ bounds
MaxRegions == 2      \* blobs in one mask
MaxDim == 3          \* largest blob width / height, in pixels
MaxTop == 1          \* largest top row of a blob

ImageHeights == {10, 15}
MinAreas == {2, 4}
\* <<FILTER_BY_POSITION, EXCLUDE_TOP_PERCENT>>
PositionSettings == {<<FALSE, 10>>, <<TRUE, 10>>, <<TRUE, 20>>}
\* <<FILTER_BY_ASPECT_RATIO, MIN_ASPECT_RATIO, MAX_ASPECT_RATIO>>, the ratios
\* in tenths; the last band has its minimum above its maximum
AspectSettings == {<<FALSE, 5, 20>>, <<TRUE, 5, 20>>, <<TRUE, 10, 15>>, <<TRUE, 20, 5>>}

VARIABLES binary, config, min_area, cc_result, cc_summary, ct_result, ct_summary,
          cc_features, ct_features

\* the exception each segmentation call ended with, "none" when it has not
VARIABLES raised

\* calculate_orientation called on its own: its argument and what it returned
VARIABLES moments, angle

orientVars == <<moments, angle>>

\* run_detection_pipeline: where it stands, the stages it has entered, what
\* it has printed, the status the process ends with, the method names and
\* switches of the configuration, and what the camera and the disk will do
VARIABLES pc, stages, console, exit_status, settings, world

pipeVars == <<pc, stages, console, exit_status, settings, world>>

\* what a second call of segment_connected_components on the same segmenter
\* and the same mask returned
VARIABLES cc_again

purityVars == <<cc_again>>

\* calculate_orientation_from_mask on the mask of one region and on the mask
\* of the same region moved: the region's pixels, the move, the two angles
VARIABLES region, shift, mask_angle

maskVars == <<region, shift, mask_angle>>

\* the tuning loop of test.py: for each threshold tried so far, the threshold
\* and what segment_connected_components returned
VARIABLES sweep

sweepVars == <<sweep>>

\* everything the segmenter and the feature extractor leave alone
auxVars == <<orientVars, pipeVars, purityVars, maskVars, sweepVars>>

vars == <<binary, config, min_area, raised, cc_result, cc_summary, ct_result, ct_summary,
          cc_features, ct_features, auxVars>>

\* ------------------------------------------------------------- arithmetic
RECURSIVE Gcd(_, _)
Gcd(a, b) == IF b = 0 THEN a ELSE Gcd(b, a % b)

\* the real number n/d as a reduced fraction
Frac(n, d) == LET g == Gcd(n, d) IN [num |-> n \div g, den |-> d \div g]

Abs(x) == IF x < 0 THEN -x ELSE x

Min2(a, b) == IF a < b THEN a ELSE b

Max2(a, b) == IF a > b THEN a ELSE b

\* A double is kept as n + t*e: n a whole number of the unit the moments are
\* counted in, t a whole number of a quantity e so small that adding it to a
\* nonzero n is lost in rounding and that atan2 of a ratio of order e rounds
\* to the neighbouring axis (1e-17 against 1, say).
Fl(n) == [n |-> n, t |-> 0]

Tiny(t) == [n |-> 0, t |-> t]

\* a - b in double arithmetic
FSub(a, b) ==
    IF a.n # b.n THEN [n |-> a.n - b.n, t |-> 0] ELSE [n |-> 0, t |-> a.t - b.t]

\* 2 * a
FTwice(a) == [n |-> 2 * a.n, t |-> 2 * a.t]

\* a == 0
FIsZero(a) == a.n = 0 /\ a.t = 0

Sign(x) == IF x > 0 THEN 1 ELSE IF x < 0 THEN -1 ELSE 0

\* ------------------------------------------------------------ input masks
\* A blob is a filled rectangle; blob k of a mask lies in its own column
\* strip, one background column apart from its neighbours.
Shapes == [top : 0..MaxTop, width : 1..MaxDim, height : 1..MaxDim]

BlobLeft(k) == (k - 1) * (MaxDim + 1)

BlobAt(k, sh) == [left |-> BlobLeft(k), top |-> sh.top, width |-> sh.width, height |-> sh.height]

BlobLists ==
    UNION {{[k \in 1..n |-> BlobAt(k, f[k])] : f \in [1..n -> Shapes]} : n \in 0..MaxRegions}

Masks == [height : ImageHeights, blobs : BlobLists]

Configs ==
    {[FILTER_BY_POSITION |-> p[1], EXCLUDE_TOP_PERCENT |-> p[2],
      FILTER_BY_ASPECT_RATIO |-> a[1],
      MIN_ASPECT_RATIO |-> a[2], MAX_ASPECT_RATIO |-> a[3]] :
        p \in PositionSettings, a \in AspectSettings}

\* --------------------------------------------------- label-map segmentation
\* cv2.connectedComponentsWithStats: stats and centroids of labels 1..n
\* (label 0, the background, is not listed).  centroid_*2 is twice the
\* centroid coordinate.
ConnectedComponentsWithStats(mask) ==
    [i \in 1..Len(mask.blobs) |->
        LET b == mask.blobs[i] IN
        [area |-> b.width * b.height,
         left |-> b.left, top |-> b.top,
         width |-> b.width, height |-> b.height,
         centroid_x2 |-> 2 * b.left + b.width - 1,
         centroid_y2 |-> 2 * b.top + b.height - 1]]

\* variant: the exclusion height rounded up instead of truncated
ExcludeTopPixels_RoundedUp(image_height, cfg) ==
    (image_height * cfg.EXCLUDE_TOP_PERCENT + 99) \div 100

\* int(image_height * (config.EXCLUDE_TOP_PERCENT / 100))
ExcludeTopPixels(image_height, cfg) ==
    (image_height * cfg.EXCLUDE_TOP_PERCENT) \div 100

\* variant: an area equal to the minimum is rejected too
TooSmall_Inclusive(area, minArea) == area <= minArea

\* Filter 1: area < self.min_area
TooSmall(area, minArea) == area < minArea

\* Filter 2: config.FILTER_BY_POSITION and centroid_y < exclude_top_pixels
InTopRegion(centroid_y2, exclude_top_pixels, cfg) ==
    cfg.FILTER_BY_POSITION /\ centroid_y2 < 2 * exclude_top_pixels

\* variant: the ends of the band are rejected too
Elongated_ClosedRejection(width, height, cfg) ==
    /\ cfg.FILTER_BY_ASPECT_RATIO
    /\ height > 0
    /\ \/ 10 * width >= cfg.MAX_ASPECT_RATIO * height
       \/ 10 * width <= cfg.MIN_ASPECT_RATIO * height

\* Filter 3: config.FILTER_BY_ASPECT_RATIO and height > 0 and
\* (width / height > MAX_ASPECT_RATIO or width / height < MIN_ASPECT_RATIO)
Elongated(width, height, cfg) ==
    /\ cfg.FILTER_BY_ASPECT_RATIO
    /\ height > 0
    /\ \/ 10 * width > cfg.MAX_ASPECT_RATIO * height
       \/ 10 * width < cfg.MIN_ASPECT_RATIO * height

\* variant: the aspect-ratio criterion tried before the other two
RejectReason_AspectFirst(st, minArea, exclude_top_pixels, cfg) ==
    IF Elongated(st.width, st.height, cfg) THEN "Elongated"
    ELSE IF TooSmall(st.area, minArea) THEN "Too small"
    ELSE IF InTopRegion(st.centroid_y2, exclude_top_pixels, cfg) THEN "In top region"
    ELSE ""

\* the reason appended for label i, or "" when it passes every filter
RejectReason(st, minArea, exclude_top_pixels, cfg) ==
    IF TooSmall(st.area, minArea) THEN "Too small"
    ELSE IF InTopRegion(st.centroid_y2, exclude_top_pixels, cfg) THEN "In top region"
    ELSE IF Elongated(st.width, st.height, cfg) THEN "Elongated"
    ELSE ""

ValidObject(i, st) ==
    [label_id |-> i, area |-> st.area, left |-> st.left, top |-> st.top,
     width |-> st.width, height |-> st.height,
     centroid_x2 |-> st.centroid_x2, centroid_y2 |-> st.centroid_y2]

\* variant: accepted objects inserted at the front of the list
RECURSIVE FilterLabels_Prepend(_, _, _, _, _, _, _)
FilterLabels_Prepend(i, stats, minArea, etp, cfg, valid_objects, filtered_reasons) ==
    IF i > Len(stats) THEN [objects |-> valid_objects, reasons |-> filtered_reasons]
    ELSE LET r == RejectReason(stats[i], minArea, etp, cfg) IN
         IF r # ""
         THEN FilterLabels_Prepend(i + 1, stats, minArea, etp, cfg, valid_objects,
                                   Append(filtered_reasons, [label |-> i, reason |-> r]))
         ELSE FilterLabels_Prepend(i + 1, stats, minArea, etp, cfg,
                                   <<ValidObject(i, stats[i])>> \o valid_objects,
                                   filtered_reasons)

\* the loop `for i in range(1, num_labels)` from label i on
RECURSIVE FilterLabels(_, _, _, _, _, _, _)
FilterLabels(i, stats, minArea, etp, cfg, valid_objects, filtered_reasons) ==
    IF i > Len(stats) THEN [objects |-> valid_objects, reasons |-> filtered_reasons]
    ELSE LET r == RejectReason(stats[i], minArea, etp, cfg) IN
         IF r # ""
         THEN FilterLabels(i + 1, stats, minArea, etp, cfg, valid_objects,
                           Append(filtered_reasons, [label |-> i, reason |-> r]))
         ELSE FilterLabels(i + 1, stats, minArea, etp, cfg,
                           Append(valid_objects, ValidObject(i, stats[i])),
                           filtered_reasons)

\* no segmentation has run: nothing returned, nothing counted or printed
NoResult == [done |-> FALSE, num_objects |-> 0, objects |-> <<>>]

NoRaise == [cc |-> "none", ct |-> "none"]

NoSummary == [total_detected |-> 0, filtered_reasons |-> <<>>, printed |-> <<>>]

\* filtered_reasons[:3]
ShownReasons == 3

FirstReasons(filtered_reasons) ==
    SubSeq(filtered_reasons, 1, Min2(ShownReasons, Len(filtered_reasons)))

\* variant: min_area used as a ceiling, regions larger than it are dropped
segment_connected_components_Ceiling(mask, minArea, cfg) ==
    LET stats == ConnectedComponentsWithStats(mask)
        etp == ExcludeTopPixels(mask.height, cfg)
        f == FilterLabels(1, stats, 0, etp, cfg, <<>>, <<>>)
        kept == SelectSeq(f.objects, LAMBDA o : o.area <= minArea)
        num_filtered == Len(stats) - Len(kept)
    IN [ret |-> [done |-> TRUE, num_objects |-> Len(kept), objects |-> kept],
        summary |-> [total_detected |-> Len(stats), filtered_reasons |-> f.reasons,
                     printed |-> IF num_filtered > 0 THEN FirstReasons(f.reasons) ELSE <<>>]]

\* ret is the returned dict (its label_map, all_stats and all_centroids are
\* the mask's, left in `binary`); summary holds the locals of the call that
\* the filtering summary is printed from: total_detected, filtered_reasons
\* and the reasons shown on the console
segment_connected_components(mask, minArea, cfg) ==
    LET stats == ConnectedComponentsWithStats(mask)
        etp == ExcludeTopPixels(mask.height, cfg)
        f == FilterLabels(1, stats, minArea, etp, cfg, <<>>, <<>>)
        num_filtered == Len(stats) - Len(f.objects)
    IN [ret |-> [done |-> TRUE, num_objects |-> Len(f.objects), objects |-> f.objects],
        summary |-> [total_detected |-> Len(stats), filtered_reasons |-> f.reasons,
                     printed |-> IF num_filtered > 0 THEN FirstReasons(f.reasons) ELSE <<>>]]

\* The mask goes to cv2 unchecked.  An array without rows is either refused
\* by cv2 with cv2.error or labelled as holding nothing, as the OpenCV build
\* has it.
SegmentConnectedComponents ==
    /\ ~cc_result.done
    /\ raised.cc = "none"
    /\ \/ /\ binary.height = 0
          /\ raised' = [raised EXCEPT !.cc = "cv2.error"]
          /\ UNCHANGED <<cc_result, cc_summary>>
       \/ /\ cc_result' = segment_connected_components(binary, min_area, config).ret
          /\ cc_summary' = segment_connected_components(binary, min_area, config).summary
          /\ UNCHANGED raised
    /\ UNCHANGED <<binary, config, min_area, ct_result, ct_summary, cc_features, ct_features,
                   auxVars>>

\* ----------------------------------------------------- contour segmentation
\* cv2.findContours(RETR_EXTERNAL, CHAIN_APPROX_SIMPLE): the outer boundary
\* of each blob as its corner points, in trace order; a blob one pixel wide
\* or high degenerates to a segment or a single point.
ContourOf(x, y, w, h) ==
    IF w = 1 /\ h = 1 THEN << <<x, y>> >>
    ELSE IF w = 1 THEN << <<x, y>>, <<x, y + h - 1>> >>
    ELSE IF h = 1 THEN << <<x, y>>, <<x + w - 1, y>> >>
    ELSE << <<x, y>>, <<x, y + h - 1>>, <<x + w - 1, y + h - 1>>, <<x + w - 1, y>> >>

FindContours(mask) ==
    [k \in 1..Len(mask.blobs) |->
        LET b == mask.blobs[k] IN ContourOf(b.left, b.top, b.width, b.height)]

NextIdx(c, k) == IF k = Len(c) THEN 1 ELSE k + 1

RECURSIVE Shoelace2(_, _)
Shoelace2(c, k) ==
    IF k > Len(c) THEN 0
    ELSE c[k][1] * c[NextIdx(c, k)][2] - c[NextIdx(c, k)][1] * c[k][2] + Shoelace2(c, k + 1)

\* cv2.contourArea: the enclosed area, sign resolved to positive
ContourArea(c) == Abs(Shoelace2(c, 1)) \div 2

RECURSIVE MinCoord(_, _, _)
MinCoord(c, d, k) ==
    IF k = Len(c) THEN c[k][d] ELSE Min2(c[k][d], MinCoord(c, d, k + 1))

RECURSIVE MaxCoord(_, _, _)
MaxCoord(c, d, k) ==
    IF k = Len(c) THEN c[k][d] ELSE Max2(c[k][d], MaxCoord(c, d, k + 1))

\* cv2.boundingRect
BoundingRect(c) ==
    [x |-> MinCoord(c, 1, 1), y |-> MinCoord(c, 2, 1),
     w |-> MaxCoord(c, 1, 1) - MinCoord(c, 1, 1) + 1,
     h |-> MaxCoord(c, 2, 1) - MinCoord(c, 2, 1) + 1]

RECURSIVE ArcLengthFrom(_, _)
ArcLengthFrom(c, k) ==
    IF k > Len(c) THEN 0
    ELSE Abs(c[k][1] - c[NextIdx(c, k)][1]) + Abs(c[k][2] - c[NextIdx(c, k)][2])
         + ArcLengthFrom(c, k + 1)

\* cv2.arcLength(contour, True); every edge of the contour is axis-aligned
ArcLength(c) == ArcLengthFrom(c, 1)

\* cv2.moments of a contour: the moments of the enclosed rectangle of
\* sides w-1 and h-1.  cx2, cy2 are twice m10/m00 and m01/m00; the central
\* moments are kept multiplied by 12.
ContourMoments(c) ==
    LET r == BoundingRect(c)
        a == r.w - 1
        b == r.h - 1
    IN [m00 |-> ContourArea(c),
        cx2 |-> 2 * r.x + a, cy2 |-> 2 * r.y + b,
        mu20 |-> Fl(a * a * a * b), mu02 |-> Fl(a * b * b * b), mu11 |-> Fl(0)]

\* variant: contour_id counts the accepted contours instead of the traced ones
RECURSIVE FilterContours_Renumbered(_, _, _, _)
FilterContours_Renumbered(k, contours, minArea, valid_objects) ==
    IF k > Len(contours) THEN valid_objects
    ELSE LET contour == contours[k]
             area == ContourArea(contour)
             M == ContourMoments(contour)
             r == BoundingRect(contour)
         IN IF area < minArea \/ M.m00 = 0
            THEN FilterContours_Renumbered(k + 1, contours, minArea, valid_objects)
            ELSE FilterContours_Renumbered(k + 1, contours, minArea,
                    Append(valid_objects,
                        [contour_id |-> Len(valid_objects), contour |-> contour, area |-> area,
                         left |-> r.x, top |-> r.y, width |-> r.w, height |-> r.h,
                         centroid_x2 |-> M.cx2, centroid_y2 |-> M.cy2,
                         moments |-> M]))

\* the loop `for idx, contour in enumerate(contours)` from position k on;
\* position k holds idx = k - 1
RECURSIVE FilterContours(_, _, _, _)
FilterContours(k, contours, minArea, valid_objects) ==
    IF k > Len(contours) THEN valid_objects
    ELSE LET contour == contours[k]
             area == ContourArea(contour)
             M == ContourMoments(contour)
             r == BoundingRect(contour)
         IN IF area < minArea THEN FilterContours(k + 1, contours, minArea, valid_objects)
            ELSE IF M.m00 = 0 THEN FilterContours(k + 1, contours, minArea, valid_objects)
            ELSE FilterContours(k + 1, contours, minArea,
                    Append(valid_objects,
                        [contour_id |-> k - 1, contour |-> contour, area |-> area,
                         left |-> r.x, top |-> r.y, width |-> r.w, height |-> r.h,
                         centroid_x2 |-> M.cx2, centroid_y2 |-> M.cy2,
                         moments |-> M]))

\* this path collects and prints no rejection reason; total_detected is the
\* length of the returned all_contours
segment_contours(mask, minArea) ==
    LET contours == FindContours(mask)
        objs == FilterContours(1, contours, minArea, <<>>)
    IN [ret |-> [done |-> TRUE, num_objects |-> Len(objs), objects |-> objs],
        summary |-> [total_detected |-> Len(contours), filtered_reasons |-> <<>>,
                     printed |-> <<>>]]

\* as above: the mask goes to cv2.findContours unchecked
SegmentContours ==
    /\ ~ct_result.done
    /\ raised.ct = "none"
    /\ \/ /\ binary.height = 0
          /\ raised' = [raised EXCEPT !.ct = "cv2.error"]
          /\ UNCHANGED <<ct_result, ct_summary>>
       \/ /\ ct_result' = segment_contours(binary, min_area).ret
          /\ ct_summary' = segment_contours(binary, min_area).summary
          /\ UNCHANGED raised
    /\ UNCHANGED <<binary, config, min_area, cc_result, cc_summary, cc_features, ct_features,
                   auxVars>>

\* ------------------------------------------------------- feature extraction
\* math.degrees(math.atan2(y, x)) as an enclosure [lo, hi] in degrees:
\* lo = hi at the multiples of 45, an open interval between them otherwise
Atan2Degrees(y, x) ==
    LET ay == Abs(y)
        q == IF x > 0 THEN (IF ay = 0 THEN <<0, 0>>
                            ELSE IF ay < x THEN <<0, 45>>
                            ELSE IF ay = x THEN <<45, 45>> ELSE <<45, 90>>)
             ELSE IF x = 0 THEN (IF ay = 0 THEN <<0, 0>> ELSE <<90, 90>>)
             ELSE (IF ay = 0 THEN <<180, 180>>
                   ELSE IF ay > -x THEN <<90, 135>>
                   ELSE IF ay = -x THEN <<135, 135>> ELSE <<135, 180>>)
    IN IF y < 0 THEN [lo |-> -q[2], hi |-> -q[1]] ELSE [lo |-> q[1], hi |-> q[2]]

\* math.degrees(math.atan2(y, x)) of two doubles.  Of the same order they
\* are compared as whole numbers.  With y of order e against a nonzero x the
\* result rounds to exactly +-pi when x < 0 and stays a nonzero angle of the
\* sign of y when x > 0; with x of order e against a nonzero y it rounds to
\* +-pi/2 or to a double next to it, on the side of x.  The result is an
\* enclosure: lo <= angle <= hi, exact where lo = hi.
Atan2Float(y, x) ==
    IF y.n # 0 /\ x.n # 0 THEN Atan2Degrees(y.n, x.n)
    ELSE IF y.n # 0 THEN
        (IF x.t = 0 THEN Atan2Degrees(y.n, 0)
         ELSE LET near == (90 - Sign(x.t)) * Sign(y.n) IN
              [lo |-> Min2(near, 90 * Sign(y.n)), hi |-> Max2(near, 90 * Sign(y.n))])
    ELSE IF x.n # 0 THEN
        (IF y.t = 0 THEN Atan2Degrees(0, x.n)
         ELSE IF x.n < 0 THEN [lo |-> 180 * Sign(y.t), hi |-> 180 * Sign(y.t)]
         ELSE IF y.t > 0 THEN [lo |-> 0, hi |-> 45] ELSE [lo |-> -45, hi |-> 0])
    ELSE Atan2Degrees(y.t, x.t)

\* variant: the singular case mu20 == mu02 not singled out
calculate_orientation_NoSingularCase(mom) ==
    Atan2Float(FTwice(mom.mu11), FSub(mom.mu20, mom.mu02))

\* the angle is returned in half-degrees: 0.5 * atan2(.) in degrees, doubled
\* (halving and math.degrees are exact at the multiples of pi/2)
calculate_orientation(mom) ==
    IF FIsZero(FSub(mom.mu20, mom.mu02)) THEN [lo |-> 0, hi |-> 0]
    ELSE Atan2Float(FTwice(mom.mu11), FSub(mom.mu20, mom.mu02))

NoAngle == [done |-> FALSE, value |-> [lo |-> 0, hi |-> 0]]

\* one call of calculate_orientation
CalculateOrientation ==
    /\ ~angle.done
    /\ angle' = [done |-> TRUE, value |-> calculate_orientation(moments)]
    /\ UNCHANGED <<binary, config, min_area, raised, cc_result, cc_summary, ct_result, ct_summary,
                   cc_features, ct_features, moments, pipeVars, purityVars, maskVars, sweepVars>>

\* variant: the moments of the transposed mask, mu20 and mu02 exchanged
MaskMoments_Transposed(obj) ==
    [m00 |-> obj.width * obj.height,
     mu20 |-> Fl(obj.width * obj.height * (obj.height * obj.height - 1)),
     mu02 |-> Fl(obj.height * obj.width * (obj.width * obj.width - 1)),
     mu11 |-> Fl(0)]

\* cv2.moments(mask, binaryImage=True) of the pixels of one label: a filled
\* w by h rectangle; central moments multiplied by 12
MaskMoments(obj) ==
    [m00 |-> obj.width * obj.height,
     mu20 |-> Fl(obj.height * obj.width * (obj.width * obj.width - 1)),
     mu02 |-> Fl(obj.width * obj.height * (obj.height * obj.height - 1)),
     mu11 |-> Fl(0)]

\* variant: the ratio taken the other way round, height / width
AspectRatio_Inverted(width, height) == IF height > 0 THEN Frac(height, width) ELSE Frac(0, 1)

\* obj['width'] / obj['height'] if obj['height'] > 0 else 0
AspectRatio(width, height) == IF height > 0 THEN Frac(width, height) ELSE Frac(0, 1)

CCFeatures(obj) ==
    [id |-> obj.label_id,
     centroid |-> <<obj.centroid_x2, obj.centroid_y2>>,
     area |-> obj.area,
     width |-> obj.width,
     height |-> obj.height,
     orientation |-> calculate_orientation(MaskMoments(obj)),
     bbox |-> <<obj.left, obj.top, obj.width, obj.height>>,
     aspect_ratio |-> AspectRatio(obj.width, obj.height)]

RECURSIVE CollectCC(_, _, _)
CollectCC(objects, k, objects_with_features) ==
    IF k > Len(objects) THEN objects_with_features
    ELSE CollectCC(objects, k + 1, Append(objects_with_features, CCFeatures(objects[k])))

extract_from_connected_components(segmentation_result) ==
    CollectCC(segmentation_result.objects, 1, <<>>)

\* variant: the contour record without its aspect_ratio field
ContourFeatures_NoAspectRatio(obj) ==
    [id |-> obj.contour_id + 1,
     centroid |-> <<obj.centroid_x2, obj.centroid_y2>>,
     area |-> obj.area,
     width |-> obj.width,
     height |-> obj.height,
     orientation |-> calculate_orientation(obj.moments),
     bbox |-> <<obj.left, obj.top, obj.width, obj.height>>,
     perimeter |-> ArcLength(obj.contour)]

ContourFeatures(obj) ==
    [id |-> obj.contour_id + 1,
     centroid |-> <<obj.centroid_x2, obj.centroid_y2>>,
     area |-> obj.area,
     width |-> obj.width,
     height |-> obj.height,
     orientation |-> calculate_orientation(obj.moments),
     bbox |-> <<obj.left, obj.top, obj.width, obj.height>>,
     aspect_ratio |-> AspectRatio(obj.width, obj.height),
     perimeter |-> ArcLength(obj.contour)]

\* variant: each record inserted at the front of the list
RECURSIVE CollectContours_Prepend(_, _, _)
CollectContours_Prepend(objects, k, objects_with_features) ==
    IF k > Len(objects) THEN objects_with_features
    ELSE CollectContours_Prepend(objects, k + 1,
            <<ContourFeatures(objects[k])>> \o objects_with_features)

RECURSIVE CollectContours(_, _, _)
CollectContours(objects, k, objects_with_features) ==
    IF k > Len(objects) THEN objects_with_features
    ELSE CollectContours(objects, k + 1,
                         Append(objects_with_features, ContourFeatures(objects[k])))

extract_from_contours(segmentation_result) ==
    CollectContours(segmentation_result.objects, 1, <<>>)

ExtractFromConnectedComponents ==
    /\ cc_result.done
    /\ ~cc_features.done
    /\ cc_features' = [done |-> TRUE, objects |-> extract_from_connected_components(cc_result)]
    /\ UNCHANGED <<binary, config, min_area, raised, cc_result, cc_summary, ct_result, ct_summary,
                   ct_features, auxVars>>

ExtractFromContours ==
    /\ ct_result.done
    /\ ~ct_features.done
    /\ ct_features' = [done |-> TRUE, objects |-> extract_from_contours(ct_result)]
    /\ UNCHANGED <<binary, config, min_area, raised, cc_result, cc_summary, ct_result, ct_summary,
                   cc_features, auxVars>>

NoFeatures == [done |-> FALSE, objects |-> <<>>]

\* two well separated blobs of 40 by 20 and 10 by 10 pixels
RoundTripMask ==
    [height |-> 100,
     blobs |-> <<[left |-> 10, top |-> 50, width |-> 40, height |-> 20],
                 [left |-> 60, top |-> 50, width |-> 10, height |-> 10]>>]

\* a 200-row mask holding one filled rectangle 100 wide and 50 high with its
\* top-left corner at (30, 30)
EndToEndMask ==
    [height |-> 200,
     blobs |-> <<[left |-> 30, top |-> 30, width |-> 100, height |-> 50]>>]

\* calculate_orientation is not called
OrientIdle ==
    /\ moments = [mu20 |-> Fl(0), mu02 |-> Fl(0), mu11 |-> Fl(0)]
    /\ angle = NoAngle

\* the pipeline is not run
PipeIdle ==
    /\ pc = "idle"
    /\ stages = <<>>
    /\ console = <<>>
    /\ exit_status = 0
    /\ settings = [SEGMENTATION_METHOD |-> "connected_components",
                   BINARIZATION_METHOD |-> "otsu", GENERATE_LOGS |-> TRUE]
    /\ world = [camera |-> "frame", disk |-> "ok"]

\* no second call
PurityIdle == cc_again = NoResult

NoMaskAngle ==
    [original |-> NoAngle, moved |-> NoAngle]

\* the tuning loop is not run
SweepIdle == sweep = <<>>

\* calculate_orientation_from_mask is not called
MaskIdle ==
    /\ region = {<<0, 0>>}
    /\ shift = <<0, 0>>
    /\ mask_angle = NoMaskAngle

\* nothing but the segmenter and the extractor is exercised
AuxIdle ==
    /\ OrientIdle
    /\ PipeIdle
    /\ PurityIdle
    /\ MaskIdle
    /\ SweepIdle

\* an array without rows: np.zeros((0, w), np.uint8)
ZeroMask == [height |-> 0, blobs |-> <<>>]

Init ==
    /\ \/ binary \in Masks /\ min_area \in MinAreas
       \/ binary = RoundTripMask /\ min_area = 500
       \/ binary = ZeroMask /\ min_area \in MinAreas
       \/ binary = EndToEndMask /\ min_area = 500
    /\ config \in Configs
    /\ raised = NoRaise
    /\ cc_result = NoResult
    /\ cc_summary = NoSummary
    /\ ct_result = NoResult
    /\ ct_summary = NoSummary
    /\ cc_features = NoFeatures
    /\ ct_features = NoFeatures
    /\ AuxIdle

Next ==
    \/ SegmentConnectedComponents
    \/ SegmentContours
    \/ ExtractFromConnectedComponents
    \/ ExtractFromContours

Spec == Init /\ [][Next]_vars

\* the segmenter and the extractor at rest, on an empty mask
SegIdle ==
    /\ binary = [height |-> 10, blobs |-> <<>>]
    /\ config = [FILTER_BY_POSITION |-> FALSE, EXCLUDE_TOP_PERCENT |-> 10,
                 FILTER_BY_ASPECT_RATIO |-> FALSE,
                 MIN_ASPECT_RATIO |-> 5, MAX_ASPECT_RATIO |-> 20]
    /\ min_area \in MinAreas /\ min_area <= 2
    /\ raised = NoRaise
    /\ cc_result = NoResult
    /\ cc_summary = NoSummary
    /\ ct_result = NoResult
    /\ ct_summary = NoSummary
    /\ cc_features = NoFeatures
    /\ ct_features = NoFeatures

\* ------------------------------------------- calculate_orientation by itself
MaxMoment == 3       \* largest moment, in units

\* second-order central moments are sums of squares: never negative
SquareMoments == {Fl(n) : n \in 0..MaxMoment} \cup {Tiny(1)}

MixedMoments == {Fl(n) : n \in (-MaxMoment)..MaxMoment} \cup {Tiny(-1), Tiny(1)}

\* order of magnitude and size of a double
Order(v) == IF v.n # 0 THEN 1 ELSE 0

Size(v) == IF v.n # 0 THEN Abs(v.n) ELSE Abs(v.t)

\* mu11^2 <= mu20 * mu02, as holds of the central moments of any mass
CauchySchwarz(mom) ==
    \/ FIsZero(mom.mu11)
    \/ /\ ~FIsZero(mom.mu20) /\ ~FIsZero(mom.mu02)
       /\ \/ 2 * Order(mom.mu11) < Order(mom.mu20) + Order(mom.mu02)
          \/ /\ 2 * Order(mom.mu11) = Order(mom.mu20) + Order(mom.mu02)
             /\ Size(mom.mu11) * Size(mom.mu11) <= Size(mom.mu20) * Size(mom.mu02)

MomentTriples ==
    {mom \in [mu20 : SquareMoments, mu02 : SquareMoments, mu11 : MixedMoments] :
        CauchySchwarz(mom)}

InitOrientation ==
    /\ SegIdle
    /\ PipeIdle
    /\ PurityIdle
    /\ MaskIdle
    /\ SweepIdle
    /\ moments \in MomentTriples
    /\ angle = NoAngle

NextOrientation ==
    \/ CalculateOrientation

SpecOrientation == InitOrientation /\ [][NextOrientation]_vars

\* ---------------------------------------------------- run_detection_pipeline
SegmentationMethods == {"connected_components", "contours", "watershed"}

BinarizationMethods == {"otsu", "adaptive", "triangle"}

\* capture_with_countdown returns a frame, returns None (no frame read, or
\* cancelled with q), or raises RuntimeError (camera cannot be opened)
CameraOutcomes == {"frame", "none", "cannot_open"}

\* writing the logs succeeds or raises OSError
DiskOutcomes == {"ok", "fails"}

\* what preprocess returns as 'binary': a mask with at most one blob
PipelineMasks == {m \in Masks : Len(m.blobs) <= 1 /\ m.height = 10}

\* variant: the exception is printed and swallowed, the run returns normally
Fail_Swallowed(stage) ==
    /\ pc' = "returned"
    /\ UNCHANGED exit_status
    /\ stages' = Append(stages, stage)
    /\ console' = Append(console, "ERROR")

\* except Exception: print the error, sys.exit(1)
Fail(stage) ==
    /\ pc' = "exited"
    /\ exit_status' = 1
    /\ stages' = Append(stages, stage)
    /\ console' = Append(console, "ERROR")

\* [1/6] image acquisition
Capture ==
    /\ pc = "start"
    /\ \/ /\ world.camera = "cannot_open"
          /\ Fail("capture")
       \/ /\ world.camera = "none"
          /\ pc' = "returned"
          /\ stages' = Append(stages, "capture")
          /\ console' = Append(console, "Failed to capture image")
          /\ UNCHANGED exit_status
       \/ /\ world.camera = "frame"
          /\ pc' = "preprocess"
          /\ stages' = Append(stages, "capture")
          /\ UNCHANGED <<console, exit_status>>
    /\ UNCHANGED <<binary, config, min_area, raised, cc_result, cc_summary, ct_result, ct_summary,
                   cc_features, ct_features, orientVars, purityVars, maskVars, sweepVars, settings, world>>

\* [2/6] preprocessing: preprocess raises ValueError on an unknown method
Preprocess ==
    /\ pc = "preprocess"
    /\ \/ /\ settings.BINARIZATION_METHOD \notin {"otsu", "adaptive"}
          /\ Fail("preprocess")
       \/ /\ settings.BINARIZATION_METHOD \in {"otsu", "adaptive"}
          /\ pc' = "segment"
          /\ stages' = Append(stages, "preprocess")
          /\ UNCHANGED <<console, exit_status>>
    /\ UNCHANGED <<binary, config, min_area, raised, cc_result, cc_summary, ct_result, ct_summary,
                   cc_features, ct_features, orientVars, purityVars, maskVars, sweepVars, settings, world>>

\* variant: an empty segmentation is taken to the error exit
AfterSegmentation_ZeroIsFailure(num_objects) ==
    IF num_objects = 0
    THEN /\ pc' = "exited"
         /\ exit_status' = 1
         /\ console' = Append(console, "ERROR")
    ELSE /\ pc' = "extract"
         /\ UNCHANGED <<console, exit_status>>

\* if seg_results['num_objects'] == 0: print the notice and return
AfterSegmentation(num_objects) ==
    IF num_objects = 0
    THEN /\ pc' = "returned"
         /\ console' = Append(console, "No objects detected.")
         /\ UNCHANGED exit_status
    ELSE /\ pc' = "extract"
         /\ UNCHANGED <<console, exit_status>>

\* [3/6] segmentation: the label-map path when the name is
\* 'connected_components', the contour path for every other name
Segment ==
    /\ pc = "segment"
    /\ stages' = Append(stages, "segment")
    /\ IF settings.SEGMENTATION_METHOD = "connected_components"
       THEN /\ cc_result' = segment_connected_components(binary, min_area, config).ret
            /\ cc_summary' = segment_connected_components(binary, min_area, config).summary
            /\ AfterSegmentation(cc_result'.num_objects)
            /\ UNCHANGED <<ct_result, ct_summary>>
       ELSE /\ ct_result' = segment_contours(binary, min_area).ret
            /\ ct_summary' = segment_contours(binary, min_area).summary
            /\ AfterSegmentation(ct_result'.num_objects)
            /\ UNCHANGED <<cc_result, cc_summary>>
    /\ UNCHANGED <<binary, config, min_area, raised, cc_features, ct_features, orientVars, purityVars, maskVars, sweepVars,
                   settings, world>>

\* [4/6] feature extraction, with the same choice of path
Extract ==
    /\ pc = "extract"
    /\ pc' = "visualize"
    /\ stages' = Append(stages, "extract")
    /\ IF settings.SEGMENTATION_METHOD = "connected_components"
       THEN /\ cc_features' = [done |-> TRUE,
                               objects |-> extract_from_connected_components(cc_result)]
            /\ UNCHANGED ct_features
       ELSE /\ ct_features' = [done |-> TRUE, objects |-> extract_from_contours(ct_result)]
            /\ UNCHANGED cc_features
    /\ UNCHANGED <<binary, config, min_area, raised, cc_result, cc_summary, ct_result, ct_summary,
                   orientVars, purityVars, maskVars, sweepVars, console, exit_status, settings, world>>

\* [5/6] visualization
Visualize ==
    /\ pc = "visualize"
    /\ pc' = "log"
    /\ stages' = Append(stages, "visualize")
    /\ UNCHANGED <<binary, config, min_area, raised, cc_result, cc_summary, ct_result, ct_summary,
                   cc_features, ct_features, orientVars, purityVars, maskVars, sweepVars, console, exit_status, settings,
                   world>>

\* [6/6] logging and output, then the final summary
Log ==
    /\ pc = "log"
    /\ \/ /\ settings.GENERATE_LOGS /\ world.disk = "fails"
          /\ Fail("log")
       \/ /\ ~(settings.GENERATE_LOGS /\ world.disk = "fails")
          /\ pc' = "returned"
          /\ stages' = IF settings.GENERATE_LOGS THEN Append(stages, "log") ELSE stages
          /\ console' = Append(console, "PIPELINE COMPLETE")
          /\ UNCHANGED exit_status
    /\ UNCHANGED <<binary, config, min_area, raised, cc_result, cc_summary, ct_result, ct_summary,
                   cc_features, ct_features, orientVars, purityVars, maskVars, sweepVars, settings, world>>

InitPipeline ==
    /\ binary \in PipelineMasks
    /\ raised = NoRaise
    /\ min_area \in MinAreas
    /\ config \in Configs
    /\ cc_result = NoResult
    /\ cc_summary = NoSummary
    /\ ct_result = NoResult
    /\ ct_summary = NoSummary
    /\ cc_features = NoFeatures
    /\ ct_features = NoFeatures
    /\ OrientIdle
    /\ PurityIdle
    /\ MaskIdle
    /\ SweepIdle
    /\ pc = "start"
    /\ stages = <<>>
    /\ console = <<>>
    /\ exit_status = 0
    /\ settings \in [SEGMENTATION_METHOD : SegmentationMethods,
                     BINARIZATION_METHOD : BinarizationMethods,
                     GENERATE_LOGS : BOOLEAN]
    /\ world \in [camera : CameraOutcomes, disk : DiskOutcomes]

NextPipeline ==
    \/ Capture
    \/ Preprocess
    \/ Segment
    \/ Extract
    \/ Visualize
    \/ Log

SpecPipeline == InitPipeline /\ [][NextPipeline]_vars

\* ------------------------------ two calls with the same arguments
\* the masks of the two calls: at most one blob, or no rows at all
PurityMasks == {m \in Masks : Len(m.blobs) <= 1} \cup {ZeroMask}

\* the config singleton is an attribute-bearing module global: any code may
\* assign to it between two calls
Reconfigure ==
    /\ cc_result.done
    /\ ~cc_again.done
    /\ config' \in Configs \ {config}
    /\ UNCHANGED <<binary, min_area, raised, cc_result, cc_summary, ct_result, ct_summary,
                   cc_features, ct_features, auxVars>>

\* the second call: same segmenter (self.min_area), same mask; config is
\* imported and read inside the call
SegmentConnectedComponentsAgain ==
    /\ cc_result.done
    /\ ~cc_again.done
    /\ cc_again' = segment_connected_components(binary, min_area, config).ret
    /\ UNCHANGED <<binary, config, min_area, raised, cc_result, cc_summary, ct_result,
                   ct_summary, cc_features, ct_features, orientVars, pipeVars, maskVars, sweepVars>>

InitPurity ==
    /\ binary \in PurityMasks
    /\ min_area \in MinAreas
    /\ config \in Configs
    /\ raised = NoRaise
    /\ cc_result = NoResult
    /\ cc_summary = NoSummary
    /\ ct_result = NoResult
    /\ ct_summary = NoSummary
    /\ cc_features = NoFeatures
    /\ ct_features = NoFeatures
    /\ OrientIdle
    /\ PipeIdle
    /\ PurityIdle
    /\ MaskIdle
    /\ SweepIdle

NextPurity ==
    \/ SegmentConnectedComponents
    \/ Reconfigure
    \/ SegmentConnectedComponentsAgain

SpecPurity == InitPurity /\ [][NextPurity]_vars

\* ------------------------------------- calculate_orientation_from_mask
MaxShift == 2        \* largest move along either axis, in pixels

\* the regions: the nonempty sets of pixels of a 2 by 2 block at the origin
RegionShapes == (SUBSET ({0, 1} \X {0, 1})) \ {{}}

Shifts == (0..MaxShift) \X (0..MaxShift)

\* the mask of the region moved by d
Translate(pix, d) == {<<p[1] + d[1], p[2] + d[2]>> : p \in pix}

Pow(x, k) == IF k = 0 THEN 1 ELSE IF k = 1 THEN x ELSE x * x

\* the raw moment m_ij of a binary mask: the sum of x^i * y^j over its pixels
RECURSIVE RawMoment(_, _, _)
RawMoment(pix, i, j) ==
    IF pix = {} THEN 0
    ELSE LET p == CHOOSE q \in pix : TRUE
         IN Pow(p[1], i) * Pow(p[2], j) + RawMoment(pix \ {p}, i, j)

\* The rounding error of the double m2 - m1 * (m1 * (1. / m00)) against the
\* nearest double to the true value, in units of 2^-53.  With m00 a power of
\* two every step is exact.  With m00 = 3 and the true value 2/3 (three
\* pixels on two neighbouring coordinates) the product is rounded in the
\* binade of m2, which gives the values below (obtained by evaluating the
\* expression in IEEE double arithmetic).
CentralRounding(m00, m1, m2) ==
    IF m00 \in {1, 2, 4} THEN 0
    ELSE CASE m2 < 4 -> 1
           [] m2 >= 4 /\ m2 < 8 -> 3
           [] m2 >= 8 /\ m2 < 32 -> 11
           [] m2 >= 32 /\ m2 < 128 -> 43

\* cv2.moments(mask, binaryImage=True): the raw moments are whole numbers,
\* the central ones are completed from them in doubles with
\* cx = m10 * (1. / m00), mu20 = m20 - m10 * cx, mu11 = m11 - m10 * cy,
\* mu02 = m02 - m01 * cy.  They are kept multiplied by m00.
BinaryMaskMoments(pix) ==
    LET m00 == RawMoment(pix, 0, 0)
        m10 == RawMoment(pix, 1, 0)
        m01 == RawMoment(pix, 0, 1)
        m20 == RawMoment(pix, 2, 0)
        m02 == RawMoment(pix, 0, 2)
        m11 == RawMoment(pix, 1, 1)
    IN [m00 |-> m00,
        mu20 |-> [n |-> m20 * m00 - m10 * m10, t |-> CentralRounding(m00, m10, m20)],
        mu02 |-> [n |-> m02 * m00 - m01 * m01, t |-> CentralRounding(m00, m01, m02)],
        mu11 |-> Fl(m11 * m00 - m10 * m01)]

calculate_orientation_from_mask(pix) == calculate_orientation(BinaryMaskMoments(pix))

\* the orientation of the region where it is
MeasureOriginal ==
    /\ ~mask_angle.original.done
    /\ mask_angle' = [mask_angle EXCEPT
           !.original = [done |-> TRUE, value |-> calculate_orientation_from_mask(region)]]
    /\ UNCHANGED <<binary, config, min_area, raised, cc_result, cc_summary, ct_result,
                   ct_summary, cc_features, ct_features, orientVars, pipeVars, purityVars,
                   region, shift, sweepVars>>

\* the orientation of the same region moved by shift
MeasureMoved ==
    /\ ~mask_angle.moved.done
    /\ mask_angle' = [mask_angle EXCEPT
           !.moved = [done |-> TRUE,
                      value |-> calculate_orientation_from_mask(Translate(region, shift))]]
    /\ UNCHANGED <<binary, config, min_area, raised, cc_result, cc_summary, ct_result,
                   ct_summary, cc_features, ct_features, orientVars, pipeVars, purityVars,
                   region, shift, sweepVars>>

InitMaskOrientation ==
    /\ SegIdle
    /\ OrientIdle
    /\ PipeIdle
    /\ PurityIdle
    /\ SweepIdle
    /\ region \in RegionShapes
    /\ shift \in Shifts
    /\ mask_angle = NoMaskAngle

NextMaskOrientation ==
    \/ MeasureOriginal
    \/ MeasureMoved

SpecMaskOrientation == InitMaskOrientation /\ [][NextMaskOrientation]_vars

\* ------------------------------------------------ the tuning loop of test.py
\* the thresholds tried, in the order of the loop (test.py tries 100, 500,
\* ..., 10000 on camera images; these are scaled to the blobs of the masks)
test_values == <<2, 4, 6>>

\* one iteration: a new ObjectSegmenter(min_area=...) and one call of
\* segment_connected_components on the same binary image
TestMinArea ==
    /\ Len(sweep) < Len(test_values)
    /\ LET value == test_values[Len(sweep) + 1]
           r == segment_connected_components(binary, value, config)
       IN /\ min_area' = value
          /\ cc_result' = r.ret
          /\ cc_summary' = r.summary
          /\ sweep' = Append(sweep, [min_area |-> value, num_objects |-> r.ret.num_objects,
                                     objects |-> r.ret.objects])
    /\ UNCHANGED <<binary, config, raised, ct_result, ct_summary, cc_features, ct_features,
                   orientVars, pipeVars, purityVars, maskVars>>

InitSweep ==
    /\ binary \in Masks
    /\ min_area = 500
    /\ config \in Configs
    /\ raised = NoRaise
    /\ cc_result = NoResult
    /\ cc_summary = NoSummary
    /\ ct_result = NoResult
    /\ ct_summary = NoSummary
    /\ cc_features = NoFeatures
    /\ ct_features = NoFeatures
    /\ OrientIdle
    /\ PipeIdle
    /\ PurityIdle
    /\ MaskIdle
    /\ SweepIdle

NextSweep ==
    \/ TestMinArea

SpecSweep == InitSweep /\ [][NextSweep]_vars

\* ------------------------------------------------------------------ claims
\* C1: on the label-map path the criteria are tried in the order area,
\* position, aspect ratio and stop at the first failure: every rejected
\* label has exactly one reason, an accepted label none, and the reason is
\* that of the first criterion the region fails; a region failing both the
\* area and the aspect-ratio criteria is reported as too small.
C1_FirstFailingReason ==
    cc_result.done =>
        \A i \in 1..cc_summary.total_detected :
            LET st == ConnectedComponentsWithStats(binary)[i]
                etp == ExcludeTopPixels(binary.height, config)
                a == TooSmall(st.area, min_area)
                p == InTopRegion(st.centroid_y2, etp, config)
                e == Elongated(st.width, st.height, config)
                rs == {k \in 1..Len(cc_summary.filtered_reasons) :
                          cc_summary.filtered_reasons[k].label = i}
                acc == \E k \in 1..Len(cc_result.objects) : cc_result.objects[k].label_id = i
            IN /\ Cardinality(rs) = IF acc THEN 0 ELSE 1
               /\ acc <=> ~(a \/ p \/ e)
               /\ \A k \in rs :
                     cc_summary.filtered_reasons[k].reason =
                        IF a THEN "Too small" ELSE IF p THEN "In top region" ELSE "Elongated"

\* a label that fails both the area and the aspect-ratio criterion was
\* filtered, with the area reason
C1_Witness ==
    /\ cc_result.done
    /\ \E k \in 1..Len(cc_summary.filtered_reasons) :
          LET st == ConnectedComponentsWithStats(binary)[cc_summary.filtered_reasons[k].label]
          IN /\ st.area < min_area
             /\ Elongated(st.width, st.height, config)
             /\ cc_summary.filtered_reasons[k].reason = "Too small"

\* C2: the accepted list of either segmentation is a subsequence of the raw
\* region list: identifiers strictly increase along it (nothing duplicated
\* or reordered) and each accepted object is the raw region of its
\* identifier (nothing added).
C2_OrderPreserving ==
    /\ cc_result.done =>
          /\ \A k \in 1..Len(cc_result.objects) :
                LET o == cc_result.objects[k] IN
                /\ o.label_id \in 1..Len(binary.blobs)
                /\ LET b == binary.blobs[o.label_id]
                   IN <<o.left, o.top, o.width, o.height>> = <<b.left, b.top, b.width, b.height>>
          /\ \A k \in 1..(Len(cc_result.objects) - 1) :
                cc_result.objects[k].label_id < cc_result.objects[k + 1].label_id
    /\ ct_result.done =>
          /\ \A k \in 1..Len(ct_result.objects) :
                LET o == ct_result.objects[k] IN
                /\ o.contour_id + 1 \in 1..Len(binary.blobs)
                /\ LET b == binary.blobs[o.contour_id + 1]
                   IN <<o.left, o.top, o.width, o.height>> = <<b.left, b.top, b.width, b.height>>
          /\ \A k \in 1..(Len(ct_result.objects) - 1) :
                ct_result.objects[k].contour_id < ct_result.objects[k + 1].contour_id

\* both segmentations accepted two regions of a mask
C2_Witness ==
    /\ cc_result.done /\ Len(cc_result.objects) = 2
    /\ ct_result.done /\ Len(ct_result.objects) = 2

\* C3: whichever path produced them, every accepted region passed the
\* minimum area, the position criterion when enabled and the aspect-ratio
\* criterion when enabled, and the two paths accept the same regions of one
\* mask.
C3_AcceptedPassAllCriteria ==
    LET etp == (binary.height * config.EXCLUDE_TOP_PERCENT) \div 100
        Passes(o) ==
            /\ o.area >= min_area
            /\ config.FILTER_BY_POSITION => o.centroid_y2 >= 2 * etp
            /\ (config.FILTER_BY_ASPECT_RATIO /\ o.height > 0) =>
                  /\ 10 * o.width <= config.MAX_ASPECT_RATIO * o.height
                  /\ 10 * o.width >= config.MIN_ASPECT_RATIO * o.height
    IN /\ cc_result.done => \A k \in 1..Len(cc_result.objects) : Passes(cc_result.objects[k])
       /\ ct_result.done => \A k \in 1..Len(ct_result.objects) : Passes(ct_result.objects[k])
       /\ (cc_result.done /\ ct_result.done) =>
             {cc_result.objects[k].label_id : k \in 1..Len(cc_result.objects)} =
             {ct_result.objects[k].contour_id + 1 : k \in 1..Len(ct_result.objects)}

\* C4: on the label-map path a region that reaches the aspect-ratio
\* criterion is rejected by it exactly when the filter is enabled, its
\* height is positive and width/height is strictly below the minimum or
\* strictly above the maximum; a ratio on either end of the band passes, and
\* with the filter disabled or a height of 0 the criterion rejects nothing.
C4_AspectRatioBand ==
    /\ cc_result.done =>
          \A i \in 1..cc_summary.total_detected :
              LET st == ConnectedComponentsWithStats(binary)[i]
                  etp == (binary.height * config.EXCLUDE_TOP_PERCENT) \div 100
                  reached == /\ st.area >= min_area
                             /\ ~(config.FILTER_BY_POSITION /\ st.centroid_y2 < 2 * etp)
                  outside == \/ 10 * st.width < config.MIN_ASPECT_RATIO * st.height
                             \/ 10 * st.width > config.MAX_ASPECT_RATIO * st.height
                  elong == \E k \in 1..Len(cc_summary.filtered_reasons) :
                              cc_summary.filtered_reasons[k] = [label |-> i, reason |-> "Elongated"]
                  acc == \E k \in 1..Len(cc_result.objects) : cc_result.objects[k].label_id = i
              IN /\ elong <=> (reached /\ config.FILTER_BY_ASPECT_RATIO /\ st.height > 0 /\ outside)
                 /\ reached => (acc <=> ~elong)
    /\ \A w \in 0..MaxDim : ~Elongated(w, 0, config)
    /\ \A w \in 0..MaxDim, h \in 0..MaxDim :
          Elongated(w, h, config) => config.FILTER_BY_ASPECT_RATIO

\* with the filter enabled, one region whose ratio equals an end of the band
\* was accepted and another was rejected as elongated
C4_Witness ==
    /\ cc_result.done
    /\ config.FILTER_BY_ASPECT_RATIO
    /\ \E k \in 1..Len(cc_result.objects) :
          LET o == cc_result.objects[k] IN
          \/ 10 * o.width = config.MIN_ASPECT_RATIO * o.height
          \/ 10 * o.width = config.MAX_ASPECT_RATIO * o.height
    /\ \E k \in 1..Len(cc_summary.filtered_reasons) :
          cc_summary.filtered_reasons[k].reason = "Elongated"

\* C5 as stated: with the position filter on, a region that passed the area
\* criterion is rejected for its position exactly when its centroid's y is
\* below the configured percentage of the image height, taken exactly.
C5_ExactPercentBand ==
    cc_result.done =>
        \A i \in 1..cc_summary.total_detected :
            LET st == ConnectedComponentsWithStats(binary)[i]
                top == \E k \in 1..Len(cc_summary.filtered_reasons) :
                          cc_summary.filtered_reasons[k] = [label |-> i, reason |-> "In top region"]
            IN st.area >= min_area =>
                  (top <=> /\ config.FILTER_BY_POSITION
                           /\ 100 * st.centroid_y2 < 2 * binary.height * config.EXCLUDE_TOP_PERCENT)

\* C5 amended: the exclusion height is the percentage of the image height
\* truncated to whole pixels; a region that passed the area criterion is
\* rejected for its position exactly when the filter is on and its
\* centroid's y is strictly below that height, whatever its aspect ratio.
C5_TruncatedPercentBand ==
    cc_result.done =>
        \A i \in 1..cc_summary.total_detected :
            LET st == ConnectedComponentsWithStats(binary)[i]
                etp == (binary.height * config.EXCLUDE_TOP_PERCENT) \div 100
                top == \E k \in 1..Len(cc_summary.filtered_reasons) :
                          cc_summary.filtered_reasons[k] = [label |-> i, reason |-> "In top region"]
                acc == \E k \in 1..Len(cc_result.objects) : cc_result.objects[k].label_id = i
            IN st.area >= min_area =>
                  /\ top <=> (config.FILTER_BY_POSITION /\ st.centroid_y2 < 2 * etp)
                  /\ top => ~acc

\* with the filter on, a region whose centroid lies exactly on the truncated
\* exclusion height was accepted and one above it was rejected for its
\* position although its aspect ratio is inside the band
C5_Witness ==
    /\ cc_result.done
    /\ config.FILTER_BY_POSITION
    /\ \E k \in 1..Len(cc_result.objects) :
          cc_result.objects[k].centroid_y2 =
              2 * ((binary.height * config.EXCLUDE_TOP_PERCENT) \div 100)
    /\ \E k \in 1..Len(cc_summary.filtered_reasons) :
          LET st == ConnectedComponentsWithStats(binary)[cc_summary.filtered_reasons[k].label]
          IN /\ cc_summary.filtered_reasons[k].reason = "In top region"
             /\ ~Elongated(st.width, st.height, config)

C7_OneReasonPerRejection ==
    /\ cc_result.done =>
          Len(cc_summary.filtered_reasons) = cc_summary.total_detected - Len(cc_result.objects)
    /\ ct_result.done =>
          Len(ct_summary.filtered_reasons) = ct_summary.total_detected - Len(ct_result.objects)

\* C8: on both paths the feature list has one record per accepted region,
\* record k describing accepted region k, and the identifiers of one
\* extraction are pairwise distinct.
C8_OneRecordPerAcceptedRegion ==
    /\ cc_features.done =>
          /\ Len(cc_features.objects) = Len(cc_result.objects)
          /\ \A k \in 1..Len(cc_features.objects) :
                LET f == cc_features.objects[k]
                    o == cc_result.objects[k]
                IN /\ f.bbox = <<o.left, o.top, o.width, o.height>>
                   /\ f.area = o.area
                   /\ f.centroid = <<o.centroid_x2, o.centroid_y2>>
          /\ \A j, k \in 1..Len(cc_features.objects) :
                j # k => cc_features.objects[j].id # cc_features.objects[k].id
    /\ ct_features.done =>
          /\ Len(ct_features.objects) = Len(ct_result.objects)
          /\ \A k \in 1..Len(ct_features.objects) :
                LET f == ct_features.objects[k]
                    o == ct_result.objects[k]
                IN /\ f.bbox = <<o.left, o.top, o.width, o.height>>
                   /\ f.area = o.area
                   /\ f.centroid = <<o.centroid_x2, o.centroid_y2>>
          /\ \A j, k \in 1..Len(ct_features.objects) :
                j # k => ct_features.objects[j].id # ct_features.objects[k].id

\* both extractions produced two records
C8_Witness ==
    /\ cc_features.done /\ Len(cc_features.objects) = 2
    /\ ct_features.done /\ Len(ct_features.objects) = 2

\* C9: a record of the label-map path carries the label of its region, which
\* is at least 1; a record of the contour path carries 1 + the position of
\* its contour among all traced contours, filtered ones included.
C9_IdentifierAssignment ==
    /\ cc_features.done =>
          \A k \in 1..Len(cc_features.objects) :
              LET f == cc_features.objects[k] IN
              /\ f.id >= 1
              /\ f.id \in 1..Len(binary.blobs)
              /\ LET st == ConnectedComponentsWithStats(binary)[f.id]
                 IN f.bbox = <<st.left, st.top, st.width, st.height>>
              /\ f.id = cc_result.objects[k].label_id
    /\ ct_features.done =>
          \A k \in 1..Len(ct_features.objects) :
              LET f == ct_features.objects[k] IN
              /\ f.id \in 1..Len(binary.blobs)
              /\ LET r == BoundingRect(FindContours(binary)[f.id])
                 IN f.bbox = <<r.x, r.y, r.w, r.h>>

\* a contour record whose identifier differs from its position in the
\* feature list (an earlier contour was filtered out), and a label-map
\* record likewise
C9_Witness ==
    /\ ct_features.done /\ Len(ct_features.objects) = 1 /\ ct_features.objects[1].id = 2
    /\ cc_features.done /\ Len(cc_features.objects) = 1 /\ cc_features.objects[1].id = 2

\* C10 as stated: the records of the two paths have the same set of field
\* names.
C10_IdenticalShapes ==
    (cc_features.done /\ ct_features.done) =>
        \A j \in 1..Len(cc_features.objects), k \in 1..Len(ct_features.objects) :
            DOMAIN cc_features.objects[j] = DOMAIN ct_features.objects[k]

\* C10 amended: a label-map record has exactly the fields id, centroid,
\* area, width, height, orientation, bbox and aspect_ratio; a contour record
\* has those same fields and one more, perimeter.
C10_SharedFieldsPlusPerimeter ==
    LET shared == {"id", "centroid", "area", "width", "height", "orientation",
                   "bbox", "aspect_ratio"}
    IN /\ cc_features.done =>
             \A k \in 1..Len(cc_features.objects) : DOMAIN cc_features.objects[k] = shared
       /\ ct_features.done =>
             \A k \in 1..Len(ct_features.objects) :
                 DOMAIN ct_features.objects[k] = shared \cup {"perimeter"}

\* both extractions produced a record of the same blob
C10_Witness ==
    /\ cc_features.done /\ ct_features.done
    /\ \E j \in 1..Len(cc_features.objects), k \in 1..Len(ct_features.objects) :
          cc_features.objects[j].bbox = ct_features.objects[k].bbox

\* C11: in every feature record of either path aspect_ratio is the record's
\* own width divided by its own height when the height is positive, and 0
\* when the height is 0 (where nothing is divided); both paths give the same
\* ratio to the same blob.
C11_AspectRatioRecomputed ==
    LET Right(f) ==
            IF f.height > 0
            THEN /\ f.aspect_ratio.den > 0
                 /\ f.aspect_ratio.num * f.height = f.aspect_ratio.den * f.width
            ELSE f.aspect_ratio = [num |-> 0, den |-> 1]
    IN /\ cc_features.done =>
             \A k \in 1..Len(cc_features.objects) : Right(cc_features.objects[k])
       /\ ct_features.done =>
             \A k \in 1..Len(ct_features.objects) : Right(ct_features.objects[k])
       /\ (cc_features.done /\ ct_features.done) =>
             \A j \in 1..Len(cc_features.objects), k \in 1..Len(ct_features.objects) :
                 cc_features.objects[j].bbox = ct_features.objects[k].bbox =>
                     cc_features.objects[j].aspect_ratio = ct_features.objects[k].aspect_ratio
       /\ \A w \in 0..MaxDim : AspectRatio(w, 0) = [num |-> 0, den |-> 1]

\* both paths produced a record of one blob whose ratio is not a whole number
C11_Witness ==
    /\ cc_features.done /\ ct_features.done
    /\ \E j \in 1..Len(cc_features.objects), k \in 1..Len(ct_features.objects) :
          /\ cc_features.objects[j].bbox = ct_features.objects[k].bbox
          /\ cc_features.objects[j].aspect_ratio.den > 1
          /\ cc_features.objects[j].width # cc_features.objects[j].height

\* C12: whatever the central moments, the returned angle lies in (-90, 90]
\* degrees; -90 itself is never returned.  (Angles are in half-degrees.)
C12_AngleInHalfOpenRange ==
    angle.done =>
        /\ angle.value.hi <= 180
        /\ angle.value.lo >= -180
        /\ angle.value # [lo |-> -180, hi |-> -180]

\* C13: when mu20 equals mu02 exactly the angle is exactly 0 whatever mu11
\* is, the all-zero triple included; otherwise it is half the two-argument
\* arctangent of (2*mu11, mu20 - mu02): 0 or 90 degrees on the axes, of the
\* sign of mu11 off them, 22.5 or 67.5 degrees in size where 2*|mu11| equals
\* |mu20 - mu02|.
C13_SingularCasePolicy ==
    angle.done =>
        LET a == moments.mu20
            b == moments.mu02
            c == moments.mu11
            v == angle.value
            bigger == a.n > b.n \/ (a.n = b.n /\ a.t > b.t)
        IN IF a = b THEN v = [lo |-> 0, hi |-> 0]
           ELSE /\ FIsZero(c) => v = IF bigger THEN [lo |-> 0, hi |-> 0]
                                     ELSE [lo |-> 180, hi |-> 180]
                /\ (c.n > 0 \/ c.t > 0) => (v.lo >= 0 /\ v.hi > 0)
                /\ (c.n < 0 \/ c.t < 0) => (v.hi <= 0 /\ v.lo < 0)
                /\ (c.n # 0 /\ a.n # b.n /\ 2 * Abs(c.n) = Abs(a.n - b.n)) =>
                      v = IF bigger THEN [lo |-> 45 * Sign(c.n), hi |-> 45 * Sign(c.n)]
                          ELSE [lo |-> 135 * Sign(c.n), hi |-> 135 * Sign(c.n)]

\* the angle of a triple with mu20 = mu02 and a nonzero mu11 came out as 0
C13_Witness ==
    /\ angle.done
    /\ moments.mu20 = moments.mu02
    /\ ~FIsZero(moments.mu11)
    /\ angle.value = [lo |-> 0, hi |-> 0]

\* C14: a segmentation or binarization method name that is not one of the
\* recognized ones is a fatal configuration error, never silently replaced by
\* a default: with such a name no segmentation is run and the pipeline does
\* not come to a normal end past the configuration.
C14_UnknownMethodFatal ==
    (\/ settings.SEGMENTATION_METHOD \notin {"connected_components", "contours"}
     \/ settings.BINARIZATION_METHOD \notin {"otsu", "adaptive"}) =>
        /\ ~cc_result.done
        /\ ~ct_result.done
        /\ (pc \in {"returned", "exited"} /\ world.camera = "frame") =>
              (pc = "exited" /\ exit_status = 1)

\* C16: when no region survives the filters the segmentation returns an empty
\* list with num_objects 0, and the pipeline prints the "no objects detected"
\* notice and ends normally: no error exit, status 0, no later stage entered.
C16_EmptyResultIsNormal ==
    LET seg == IF settings.SEGMENTATION_METHOD = "connected_components"
               THEN cc_result ELSE ct_result
    IN (seg.done /\ seg.objects = <<>>) =>
        /\ seg.num_objects = 0
        /\ pc = "returned"
        /\ exit_status = 0
        /\ console = <<"No objects detected.">>
        /\ stages = <<"capture", "preprocess", "segment">>
        /\ ~cc_features.done /\ ~ct_features.done

\* a mask with a blob in it of which the filters left nothing, on either path
C16_Witness ==
    /\ binary.blobs # <<>>
    /\ \/ cc_result.done /\ cc_result.objects = <<>>
       \/ ct_result.done /\ ct_result.objects = <<>>
    /\ pc = "returned"

\* C15: an aspect-ratio band with its minimum above its maximum is a fatal
\* configuration error: the filtering never runs to completion with it.
C15_InvalidBandFatal ==
    (config.FILTER_BY_ASPECT_RATIO /\ config.MIN_ASPECT_RATIO > config.MAX_ASPECT_RATIO) =>
        ~cc_result.done

\* C17: a mask one of whose dimensions is zero makes either segmentation
\* operation fail with InvalidInputError, propagated to the caller; it never
\* returns a region list for such a mask.
C17_ZeroDimensionRejected ==
    binary.height = 0 =>
        /\ ~cc_result.done
        /\ ~ct_result.done
        /\ raised.cc \in {"none", "InvalidInputError"}
        /\ raised.ct \in {"none", "InvalidInputError"}

\* C18: region filtering is pure: two calls given the same mask and the same
\* thresholds return the same result, whatever ambient state is read at the
\* time of each call.
C18_FilteringPure ==
    (cc_result.done /\ cc_again.done) => cc_again = cc_result

\* C19: from the 200-row mask holding one filled rectangle 100 wide, 50 high
\* at (30, 30), with the minimum area 500 and filters the rectangle passes,
\* segmentation and feature extraction on the label-map path give exactly one
\* record: area 5000, bbox (30, 30, 100, 50), centroid (79.5, 54.5), aspect
\* ratio 2.0, orientation 0.  (Centroids are doubled; a band that leaves out
\* 2.0 rejects the rectangle.)
C19_EndToEndRectangle ==
    (binary = EndToEndMask /\ cc_features.done) =>
        IF \/ ~config.FILTER_BY_ASPECT_RATIO
           \/ config.MIN_ASPECT_RATIO <= 20 /\ 20 <= config.MAX_ASPECT_RATIO
        THEN cc_features.objects =
                 << [id |-> 1, area |-> 5000, width |-> 100, height |-> 50,
                     bbox |-> <<30, 30, 100, 50>>, centroid |-> <<159, 109>>,
                     aspect_ratio |-> [num |-> 2, den |-> 1],
                     orientation |-> [lo |-> 0, hi |-> 0]] >>
        ELSE cc_features.objects = <<>>

\* the rectangle was segmented, accepted and measured
C19_Witness ==
    /\ binary = EndToEndMask
    /\ cc_result.done /\ cc_result.num_objects = 1
    /\ cc_features.done /\ Len(cc_features.objects) = 1

\* C20: the orientation of a region does not change when its mask is moved
\* as a whole: the angle of the moved mask equals the angle of the original.
\* (The two are told apart only where their enclosures have no angle in
\* common.)
C20_TranslationInvariant ==
    (mask_angle.original.done /\ mask_angle.moved.done) =>
        /\ mask_angle.original.value.lo <= mask_angle.moved.value.hi
        /\ mask_angle.moved.value.lo <= mask_angle.original.value.hi

\* the six stages in the order of the source, and the rank of each position
\* of the run in that order
StageOrder == <<"capture", "preprocess", "segment", "extract", "visualize", "log">>

C21_Rank(p) ==
    CASE p = "start" -> 0
      [] p = "preprocess" -> 1
      [] p = "segment" -> 2
      [] p = "extract" -> 3
      [] p = "visualize" -> 4
      [] p = "log" -> 5
      [] OTHER -> 6

\* C21: the stages run strictly in the order capture, preprocess, segment,
\* extract, visualize, log, and nothing runs after the run has stopped: when
\* capture gives no image or segmentation accepts nothing the run returns
\* normally with no feature extracted and no later stage entered; when a
\* stage raises the run ends with exit status 1 at that stage; a run that
\* has returned or exited takes no further step.
C21_StagesInOrder ==
    /\ [](LET seg == IF settings.SEGMENTATION_METHOD = "connected_components"
                     THEN cc_result ELSE ct_result
              features == IF settings.SEGMENTATION_METHOD = "connected_components"
                          THEN cc_features ELSE ct_features
          IN /\ Len(stages) <= Len(StageOrder)
             /\ \A k \in 1..Len(stages) : stages[k] = StageOrder[k]
             /\ seg.done <=> (Len(stages) >= 3)
             /\ features.done <=> (Len(stages) >= 4)
             /\ (pc = "returned" /\ world.camera = "none") =>
                   (stages = <<"capture">> /\ exit_status = 0)
             /\ (seg.done /\ seg.num_objects = 0) =>
                   (pc = "returned" /\ Len(stages) = 3 /\ exit_status = 0)
             /\ (exit_status = 1) <=> (pc = "exited")
             /\ (world.camera = "cannot_open" /\ Len(stages) >= 1) => pc = "exited"
             /\ (settings.BINARIZATION_METHOD \notin {"otsu", "adaptive"}
                    /\ Len(stages) >= 2) => pc = "exited"
             /\ (settings.GENERATE_LOGS /\ world.disk = "fails" /\ Len(stages) = 6) =>
                   pc = "exited"
             /\ (pc = "exited") =>
                   \/ Len(stages) = 1 /\ world.camera = "cannot_open"
                   \/ Len(stages) = 2 /\ settings.BINARIZATION_METHOD \notin {"otsu", "adaptive"}
                   \/ Len(stages) = 6 /\ world.disk = "fails")
    /\ [][/\ pc \notin {"returned", "exited"}
          /\ C21_Rank(pc') > C21_Rank(pc)
          /\ Len(stages') <= Len(stages) + 1]_vars

\* a run that went through every stage and was ended by an exception in the
\* last one
C21_Witness ==
    /\ pc = "exited"
    /\ exit_status = 1
    /\ stages = StageOrder

\* C22: on the label-map path, with the same mask and the same other
\* configuration, a larger min_area accepts a subsequence of what a smaller
\* one accepts: the same objects in the same order with some left out, so
\* num_objects never grows as min_area grows.
C22_MinAreaMonotone ==
    \A i \in 1..Len(sweep), j \in 1..Len(sweep) :
        sweep[i].min_area <= sweep[j].min_area =>
            LET small == sweep[i].objects
                large == sweep[j].objects
            IN /\ sweep[j].num_objects <= sweep[i].num_objects
               /\ sweep[j].num_objects = Len(large)
               /\ \E f \in [1..Len(large) -> 1..Len(small)] :
                     /\ \A k \in 1..Len(large) : large[k] = small[f[k]]
                     /\ \A k, m \in 1..Len(large) : k < m => f[k] < f[m]

\* a larger threshold kept some but not all of what a smaller one accepted
C22_Witness ==
    \E i \in 1..Len(sweep), j \in 1..Len(sweep) :
        /\ sweep[i].min_area < sweep[j].min_area
        /\ sweep[j].num_objects > 0
        /\ sweep[j].num_objects < sweep[i].num_objects

====
